---- MODULE Spec2Model ----
(***************************************************************************)
(* Model of lib/handlers/li.js of hast-util-to-mdast: the list-item        *)
(* handler `li`, the loose/tight classifier `spreadout` and the leading    *)
(* checkbox extractor `extractLeadingCheckbox`.                            *)
(*                                                                         *)
(* JavaScript objects are modelled as cells of a heap: `heap` is a         *)
(* sequence of node records and a reference is an index into it, so that   *)
(* "same reference" is equality of indices, an object literal              *)
(* `{...x, children}` is the allocation of a fresh cell, and an in-place   *)
(* mutation would be a change of an existing cell.                         *)
(***************************************************************************)
EXTENDS Integers, Sequences, FiniteSets, TLC

VARIABLES heap, node, pc, ret, ret2, spread, result, patched

vars == <<heap, node, pc, ret, ret2, spread, result, patched>>

(***************************************************************************)
(* Bounds of the input trees.                                              *)
(***************************************************************************)
MaxNodes == 5

(***************************************************************************)
(* JavaScript values.                                                      *)
(***************************************************************************)
\* No reference (JavaScript `undefined` where a node is expected).
Undefined == 0

\* Values a hast property can hold in the model; Falsy are those that
\* Boolean() maps to false.
Falsy == {"undefined", "null", "false", "''", "0"}

Boolean(v) == IF v \in Falsy THEN "false" ELSE "true"

\* Characters of text values; WhiteSpace are those String.prototype.trimStart
\* strips.
WhiteSpace == {" ", "\t", "\n", "\r"}

\* Mutant of trimStart: strips the end of the string instead (trimEnd).
RECURSIVE trimEndInstead(_)
trimEndInstead(s) ==
    IF s = <<>> THEN s
    ELSE IF s[Len(s)] \in WhiteSpace THEN trimEndInstead(SubSeq(s, 1, Len(s) - 1))
    ELSE s

RECURSIVE trimStart(_)
trimStart(s) ==
    IF s = <<>> THEN s
    ELSE IF Head(s) \in WhiteSpace THEN trimStart(Tail(s))
    ELSE s

(***************************************************************************)
(* Nodes.                                                                  *)
(***************************************************************************)
NoProperties == [type |-> "undefined", checked |-> "undefined"]

Element(tagName, properties, children) ==
    [type |-> "element", tagName |-> tagName, properties |-> properties,
     value |-> <<>>, children |-> children]

Text(value) ==
    [type |-> "text", tagName |-> "", properties |-> NoProperties,
     value |-> value, children |-> <<>>]

\* hast-util-phrasing on the tags of the model: an element is phrasing by its
\* tag name; `input` and `strong` are phrasing content, `p`, `div` and `li`
\* are not.
PhrasingTags == {"input", "strong"}

phrasing(h, n) == h[n].type = "text" \/ h[n].tagName \in PhrasingTags

\* Mutant of spreadoutLoop: the test of the paragraph tag is missing.
RECURSIVE spreadoutLoopNoParagraph(_, _, _, _)
spreadoutLoopNoParagraph(h, n, index, seenFlow) ==
    IF index > Len(h[n].children) THEN FALSE
    ELSE LET child == h[n].children[index] IN
         IF h[child].type = "element"
         THEN IF phrasing(h, child)
              THEN spreadoutLoopNoParagraph(h, n, index + 1, seenFlow)
              ELSE IF \/ seenFlow
                      \/ spreadoutLoopNoParagraph(h, child, 1, FALSE)
                   THEN TRUE
                   ELSE spreadoutLoopNoParagraph(h, n, index + 1, TRUE)
         ELSE spreadoutLoopNoParagraph(h, n, index + 1, seenFlow)

\* Mutant of spreadoutLoop: a lone flow child is not looked into.
RECURSIVE spreadoutLoopNoRecursion(_, _, _, _)
spreadoutLoopNoRecursion(h, n, index, seenFlow) ==
    IF index > Len(h[n].children) THEN FALSE
    ELSE LET child == h[n].children[index] IN
         IF h[child].type = "element"
         THEN IF phrasing(h, child)
              THEN spreadoutLoopNoRecursion(h, n, index + 1, seenFlow)
              ELSE IF h[child].tagName = "p" \/ seenFlow
                   THEN TRUE
                   ELSE spreadoutLoopNoRecursion(h, n, index + 1, TRUE)
         ELSE spreadoutLoopNoRecursion(h, n, index + 1, seenFlow)

(***************************************************************************)
(* spreadout: the loop over node.children with `index` and `seenFlow`;     *)
(* the recursive call on a child restarts the loop on that child.          *)
(***************************************************************************)
RECURSIVE spreadoutLoop(_, _, _, _)
spreadoutLoop(h, n, index, seenFlow) ==
    IF index > Len(h[n].children) THEN FALSE
    ELSE LET child == h[n].children[index] IN
         IF h[child].type = "element"
         THEN IF phrasing(h, child)
              THEN spreadoutLoop(h, n, index + 1, seenFlow)
              ELSE IF \/ h[child].tagName = "p"
                      \/ seenFlow
                      \/ spreadoutLoop(h, child, 1, FALSE)
                   THEN TRUE
                   ELSE spreadoutLoop(h, n, index + 1, TRUE)
         ELSE spreadoutLoop(h, n, index + 1, seenFlow)

spreadout(h, n) == spreadoutLoop(h, n, 1, FALSE)

(***************************************************************************)
(* extractLeadingCheckbox.                                                 *)
(***************************************************************************)
\* The first test of the loop: the candidate is an <input> of type checkbox
\* or radio.  (candidate.properties is always an object in the model.)
isCheckbox(h, candidate) ==
    /\ candidate # Undefined
    /\ h[candidate].type = "element"
    /\ h[candidate].tagName = "input"
    /\ \/ h[candidate].properties.type = "checkbox"
       \/ h[candidate].properties.type = "radio"

\* The second test of the loop: the candidate is an element to descend into.
isWrapper(h, candidate) ==
    /\ candidate # Undefined
    /\ h[candidate].type = "element"
    /\ (h[candidate].tagName = "p" \/ phrasing(h, candidate))

\* A thrown TypeError: nothing is returned.
Thrown(h) == [threw |-> TRUE, checked |-> "none", clone |-> Undefined, heap |-> h]

\* Mutant of cloneWith: the parent's children are also assigned in place.
cloneInPlace(h, parent, children) ==
    Append([h EXCEPT ![parent].children = children],
           [h[parent] EXCEPT !.children = children])

\* `{...parent, children}`: a fresh object with parent's fields and the given
\* children; the new reference is Len(h) + 1.
cloneWith(h, parent, children) ==
    Append(h, [h[parent] EXCEPT !.children = children])

\* Mutant of cleanLeadingText: a text that follows the checkbox is dropped
\* whatever is left of it.
cleanLeadingTextDropsAny(h, children) ==
    IF children = <<>>
    THEN [threw |-> TRUE, heap |-> h, children |-> children]
    ELSE IF h[children[1]].type = "text"
    THEN [threw |-> FALSE, heap |-> h, children |-> Tail(children)]
    ELSE [threw |-> FALSE, heap |-> h, children |-> children]

\* The cleanup of the text that follows the checkbox, on the sliced children
\* of the checkbox's parent.  children[0].type on an empty array reads a
\* property of undefined, which throws.
cleanLeadingText(h, children) ==
    IF children = <<>>
    THEN [threw |-> TRUE, heap |-> h, children |-> children]
    ELSE IF h[children[1]].type = "text"
    THEN LET newValue == trimStart(h[children[1]].value) IN
         IF newValue # <<>>
         THEN [threw |-> FALSE,
               heap |-> Append(h, [h[children[1]] EXCEPT !.value = newValue]),
               children |-> <<Len(h) + 1>> \o Tail(children)]
         ELSE [threw |-> FALSE, heap |-> h, children |-> Tail(children)]
    ELSE [threw |-> FALSE, heap |-> h, children |-> children]

\* Mutant of rebuild: the rebuilt inner clone is not put back in front of
\* the outer parent's remaining children.
RECURSIVE rebuildWithoutUnshift(_, _, _, _, _)
rebuildWithoutUnshift(h, n, parents, clone, checked) ==
    IF parents = <<>>
    THEN [threw |-> FALSE, checked |-> checked, clone |-> clone, heap |-> h]
    ELSE LET parent == Head(parents)
             sliced == Tail(h[parent].children)
         IN  IF clone # n
             THEN rebuildWithoutUnshift(cloneWith(h, parent, sliced),
                                        n, Tail(parents), Len(h) + 1, checked)
             ELSE LET cleaned == cleanLeadingText(h, sliced) IN
                  IF cleaned.threw THEN Thrown(h)
                  ELSE rebuildWithoutUnshift(
                           cloneWith(cleaned.heap, parent, cleaned.children),
                           n, Tail(parents), Len(cleaned.heap) + 1, checked)

\* `for (const parent of parents)`: parents is ordered innermost first.
RECURSIVE rebuild(_, _, _, _, _)
rebuild(h, n, parents, clone, checked) ==
    IF parents = <<>>
    THEN [threw |-> FALSE, checked |-> checked, clone |-> clone, heap |-> h]
    ELSE LET parent == Head(parents)
             sliced == Tail(h[parent].children)
         IN  IF clone # n
             THEN rebuild(cloneWith(h, parent, <<clone>> \o sliced),
                          n, Tail(parents), Len(h) + 1, checked)
             ELSE LET cleaned == cleanLeadingText(h, sliced) IN
                  IF cleaned.threw THEN Thrown(h)
                  ELSE rebuild(cloneWith(cleaned.heap, parent, cleaned.children),
                               n, Tail(parents), Len(cleaned.heap) + 1, checked)

\* `while (parents[0].children)`: parents[0] is always an element, whose
\* children is an array.
RECURSIVE descend(_, _, _)
descend(h, n, parents) ==
    LET children == h[Head(parents)].children
        candidate == IF children = <<>> THEN Undefined ELSE children[1]
    IN  IF isCheckbox(h, candidate)
        THEN rebuild(h, n, parents, n, Boolean(h[candidate].properties.checked))
        ELSE IF isWrapper(h, candidate)
        THEN descend(h, n, <<candidate>> \o parents)
        ELSE [threw |-> FALSE, checked |-> "null", clone |-> n, heap |-> h]

\* Mutant of extractLeadingCheckbox: the input node is copied also when no
\* checkbox is found.
extractAlwaysClones(h, n) ==
    LET e == descend(h, n, <<n>>) IN
    IF ~e.threw /\ e.checked = "null"
    THEN [e EXCEPT !.clone = Len(h) + 1,
                   !.heap = cloneWith(h, n, h[n].children)]
    ELSE e

extractLeadingCheckbox(h, n) == descend(h, n, <<n>>)

(***************************************************************************)
(* li.  state.all and state.toFlow belong to the surrounding converter:    *)
(* the result records the children they were given; state.patch is         *)
(* recorded as the source node it was called with.                         *)
(***************************************************************************)
li(h, n) ==
    LET e == extractLeadingCheckbox(h, n) IN
    IF e.threw
    THEN [threw |-> TRUE, type |-> "none", spread |-> FALSE, checked |-> "none",
          children |-> <<>>, source |-> Undefined, heap |-> e.heap]
    ELSE [threw |-> FALSE, type |-> "listItem", spread |-> spreadout(e.heap, e.clone),
          checked |-> e.checked, children |-> e.heap[e.clone].children,
          source |-> e.clone, heap |-> e.heap]

(***************************************************************************)
(* The input trees: every ordered tree of at most MaxNodes nodes whose     *)
(* root is an <li>, whose inner nodes are <p>, <div> or <strong> elements  *)
(* and whose leaves are any of Labels.  Nodes are numbered in document     *)
(* order, the root being 1.                                                *)
(***************************************************************************)
ContainerLabels ==
    {Element(t, NoProperties, <<>>) : t \in {"p", "div", "strong"}}

InputLabels ==
    {Element("input", [type |-> "checkbox", checked |-> "true"], <<>>),
     Element("input", [type |-> "checkbox", checked |-> "undefined"], <<>>),
     Element("input", [type |-> "radio", checked |-> "false"], <<>>),
     Element("input", [type |-> "text", checked |-> "true"], <<>>)}

TextLabels ==
    {Text(<<" ">>), Text(<<"\n", " ", "a", " ">>), Text(<<"a">>)}

Labels == ContainerLabels \cup InputLabels \cup TextLabels

RECURSIVE IsAncestorOrSelf(_, _, _)
IsAncestorOrSelf(par, a, x) ==
    \/ x = a
    \/ x > 1 /\ IsAncestorOrSelf(par, a, par[x])

\* Parent functions of the ordered trees of n nodes in document order: the
\* parent of i is i - 1 or one of its ancestors.
Shapes(n) ==
    {par \in [2..n -> 1..n] :
        \A i \in 2..n : par[i] < i /\ IsAncestorOrSelf(par, par[i], i - 1)}

ChildrenOf(par, n, i) ==
    SelectSeq([k \in 1..n |-> k], LAMBDA j : j > 1 /\ par[j] = i)

Inner(par, n) == {par[i] : i \in 2..n} \ {1}

Leaves(par, n) == (2..n) \ Inner(par, n)

Tree(par, n, inner, leaf) ==
    [i \in 1..n |->
        IF i = 1 THEN Element("li", NoProperties, ChildrenOf(par, n, 1))
        ELSE IF i \in DOMAIN inner
        THEN [inner[i] EXCEPT !.children = ChildrenOf(par, n, i)]
        ELSE leaf[i]]

NoRet == [threw |-> FALSE, checked |-> "none", clone |-> Undefined]

NoResult ==
    [threw |-> FALSE, type |-> "none", spread |-> FALSE, checked |-> "none",
     children |-> <<>>]

Init ==
    /\ \E n \in 1..MaxNodes : \E par \in Shapes(n) :
         \E inner \in [Inner(par, n) -> ContainerLabels] :
           \E leaf \in [Leaves(par, n) -> Labels] :
             heap = Tree(par, n, inner, leaf)
    /\ node = 1
    /\ pc = "start"
    /\ ret = NoRet
    /\ ret2 = NoRet
    /\ spread = "none"
    /\ result = NoResult
    /\ patched = <<>>

(***************************************************************************)
(* The operations.                                                         *)
(***************************************************************************)
\* A call of extractLeadingCheckbox on the input node.
Extract ==
    /\ pc = "start"
    /\ LET e == extractLeadingCheckbox(heap, node) IN
         /\ heap' = e.heap
         /\ ret' = [threw |-> e.threw, checked |-> e.checked, clone |-> e.clone]
    /\ pc' = "extracted"
    /\ UNCHANGED <<node, ret2, spread, result, patched>>

\* A second call, on the clone a successful extraction returned.
ExtractAgain ==
    /\ pc = "extracted"
    /\ ~ret.threw
    /\ ret.checked # "null"
    /\ LET e == extractLeadingCheckbox(heap, ret.clone) IN
         /\ heap' = e.heap
         /\ ret2' = [threw |-> e.threw, checked |-> e.checked, clone |-> e.clone]
    /\ pc' = "reextracted"
    /\ UNCHANGED <<node, ret, spread, result, patched>>

\* A call of spreadout on the input node.
Spreadout ==
    /\ pc = "start"
    /\ spread' = IF spreadout(heap, node) THEN "true" ELSE "false"
    /\ pc' = "classified"
    /\ UNCHANGED <<heap, node, ret, ret2, result, patched>>

\* A call of li on the input node.
Li ==
    /\ pc = "start"
    /\ LET r == li(heap, node) IN
         /\ heap' = r.heap
         /\ result' = [threw |-> r.threw, type |-> r.type, spread |-> r.spread,
                       checked |-> r.checked, children |-> r.children]
         /\ patched' = IF r.threw THEN patched ELSE Append(patched, r.source)
    /\ pc' = "converted"
    /\ UNCHANGED <<node, ret, ret2, spread>>

Next == Extract \/ ExtractAgain \/ Spreadout \/ Li

Spec == Init /\ [][Next]_vars

(***************************************************************************)
(* Vocabulary of the properties, stated on the tree and not on the code.   *)
(***************************************************************************)
\* The chain of first children that starts at x: x, its first child, ...
RECURSIVE LeadingPath(_, _)
LeadingPath(h, x) ==
    IF h[x].children = <<>> THEN <<x>>
    ELSE <<x>> \o LeadingPath(h, h[x].children[1])

CheckboxNode(h, x) ==
    /\ h[x].type = "element"
    /\ h[x].tagName = "input"
    /\ h[x].properties.type \in {"checkbox", "radio"}

WrapperNode(h, x) ==
    /\ h[x].type = "element"
    /\ (h[x].tagName = "p" \/ phrasing(h, x))

\* Positions on the leading path of x of a checkbox or radio that is reached
\* through paragraph or phrasing elements only.
TargetPositions(h, x) ==
    LET path == LeadingPath(h, x) IN
    {k \in 2..Len(path) :
        /\ CheckboxNode(h, path[k])
        /\ \A j \in 2..(k - 1) :
             WrapperNode(h, path[j]) /\ ~CheckboxNode(h, path[j])}

HasTarget(h, x) == TargetPositions(h, x) # {}

\* The spine of x, outermost first: x down to the parent of the checkbox.
Spine(h, x) ==
    LET k == CHOOSE k \in TargetPositions(h, x) : TRUE
    IN  SubSeq(LeadingPath(h, x), 1, k - 1)

Target(h, x) ==
    LET k == CHOOSE k \in TargetPositions(h, x) : TRUE
    IN  LeadingPath(h, x)[k]

Innermost(h, x) == Spine(h, x)[Len(Spine(h, x))]

\* The children of the checkbox's parent that follow the checkbox.
Following(h, x) == Tail(h[Innermost(h, x)].children)

\* v without its leading white space: the suffix of v that does not start
\* with white space and is preceded by white space only.
LeadingTrimmed(v) ==
    CHOOSE t \in {SubSeq(v, k, Len(v)) : k \in 1..(Len(v) + 1)} :
        /\ t = <<>> \/ t[1] \notin WhiteSpace
        /\ \A i \in 1..(Len(v) - Len(t)) : v[i] \in WhiteSpace

Succeeded(r) == ~r.threw /\ r.checked \in {"true", "false"}

(***************************************************************************)
(* C1.  extractLeadingCheckbox and li never fail: every call returns.      *)
(* Stated as claimed; the code throws when the checkbox has no following   *)
(* sibling.                                                                *)
(***************************************************************************)
C1_NeverFails == ~ret.threw /\ ~ret2.threw /\ ~result.threw

(***************************************************************************)
(* C2.  When a checkbox or radio is the only child of the list item, the   *)
(* extraction returns the boolean of its checked attribute and a clone     *)
(* without children.  Stated as claimed.                                   *)
(***************************************************************************)
OnlyChildIsCheckbox(h, x) ==
    Len(h[x].children) = 1 /\ CheckboxNode(h, h[x].children[1])

C2_OnlyChild ==
    (pc = "extracted" /\ OnlyChildIsCheckbox(heap, node)) =>
        /\ ~ret.threw
        /\ ret.checked = Boolean(heap[heap[node].children[1]].properties.checked)
        /\ heap[ret.clone].children = <<>>

(***************************************************************************)
(* C3.  For every input the returned checked is null exactly when no       *)
(* checkbox or radio is reached on the leading path through paragraph or   *)
(* phrasing elements, and is otherwise the boolean of the checked          *)
(* attribute of that control.  Stated as claimed.                          *)
(***************************************************************************)
C3_CheckedValue ==
    pc = "extracted" =>
        /\ ~ret.threw
        /\ (ret.checked = "null") <=> ~HasTarget(heap, node)
        /\ HasTarget(heap, node) =>
             ret.checked = Boolean(heap[Target(heap, node)].properties.checked)

\* What C3 says, on the calls that return.
CheckedValueWhenReturned ==
    (pc = "extracted" /\ ~ret.threw) =>
        /\ (ret.checked = "null") <=> ~HasTarget(heap, node)
        /\ HasTarget(heap, node) =>
             ret.checked = Boolean(heap[Target(heap, node)].properties.checked)

(***************************************************************************)
(* C4.  On a successful extraction, a Text node that follows the removed   *)
(* checkbox in the checkbox's parent is replaced in the clone by a Text    *)
(* node whose value has lost its leading white space, or is dropped when   *)
(* nothing else is left of it; at every outer level of the spine the       *)
(* children after the first are the original ones, untrimmed.              *)
(* h0 is the heap before the call, h1 the heap after it, x the input node  *)
(* and r the returned value.                                               *)
(***************************************************************************)
TrimmedInnermostOnly(h0, h1, x, r) ==
    LET spine == Spine(h0, x)
        m     == Len(spine)
        rest  == Following(h0, x)
        cpath == LeadingPath(h1, r.clone)
        kids  == h1[cpath[m]].children
    IN  /\ (rest # <<>> /\ h0[rest[1]].type = "text") =>
             LET t == LeadingTrimmed(h0[rest[1]].value) IN
             IF t = <<>>
             THEN kids = Tail(rest)
             ELSE /\ Len(kids) = Len(rest)
                  /\ h1[kids[1]].type = "text"
                  /\ h1[kids[1]].value = t
                  /\ Tail(kids) = Tail(rest)
        /\ \A j \in 1..(m - 1) :
             LET outer == h1[cpath[j]].children IN
             /\ Tail(outer) = Tail(h0[spine[j]].children)
             /\ \A i \in 2..Len(outer) : h1[outer[i]] = h0[outer[i]]

C4_LeadingTextTrimmed ==
    [][(pc = "start" /\ pc' = "extracted" /\ Succeeded(ret')) =>
          TrimmedInnermostOnly(heap, heap', node, ret')]_vars

\* <li><p><input type="checkbox"> a </p> </li>: the text in the paragraph is
\* trimmed at its start, the text after the paragraph is kept as it is.
C4_Witness ==
    /\ pc = "extracted"
    /\ ret.checked = "false"
    /\ Len(heap[node].children) = 2
    /\ heap[heap[node].children[1]].tagName = "p"
    /\ heap[heap[node].children[2]] = Text(<<" ">>)
    /\ LET para == heap[heap[node].children[1]].children IN
         /\ Len(para) = 2
         /\ CheckboxNode(heap, para[1])
         /\ heap[para[2]] = Text(<<"\n", " ", "a", " ">>)
    /\ LET c == heap[ret.clone] IN
         /\ c.tagName = "li"
         /\ Len(c.children) = 2
         /\ heap[c.children[1]].tagName = "p"
         /\ heap[c.children[2]] = Text(<<" ">>)
         /\ Len(heap[c.children[1]].children) = 1
         /\ heap[heap[c.children[1]].children[1]] = Text(<<"a", " ">>)

(***************************************************************************)
(* C5.  As claimed: a second extraction, on the clone returned by a        *)
(* successful one, returns checked = null and that same clone.  Stated on  *)
(* the second calls that return, so that a violation is a second checkbox  *)
(* found and not the failure of C1.                                        *)
(***************************************************************************)
C5_Idempotent ==
    (pc = "reextracted" /\ ~ret2.threw) =>
        /\ ret2.checked = "null"
        /\ ret2.clone = ret.clone

\* What leads the checkbox's parent once the checkbox is removed and a
\* following white-space-only text is dropped.
NextLeading(h, x) ==
    LET rest == Following(h, x) IN
    IF rest # <<>> /\ h[rest[1]].type = "text"
                   /\ LeadingTrimmed(h[rest[1]].value) = <<>>
    THEN Tail(rest)
    ELSE rest

\* Another checkbox or radio leads the item behind the first one.
AnotherLeads(h, x) ==
    LET nxt == NextLeading(h, x) IN
    /\ nxt # <<>>
    /\ \/ CheckboxNode(h, nxt[1])
       \/ WrapperNode(h, nxt[1]) /\ HasTarget(h, nxt[1])

(***************************************************************************)
(* C5, amended.  A second extraction, on the clone returned by a           *)
(* successful one, returns checked = null and that same clone, unless in   *)
(* the input the removed checkbox is followed (directly, or after a        *)
(* white-space-only text) by another leading checkbox or radio.            *)
(***************************************************************************)
C5_IdempotentUnlessAnotherLeads ==
    (pc = "reextracted" /\ ~AnotherLeads(heap, node)) =>
        /\ ~ret2.threw
        /\ ret2.checked = "null"
        /\ ret2.clone = ret.clone

C5_Witness ==
    /\ pc = "reextracted"
    /\ ~AnotherLeads(heap, node)
    /\ Len(Spine(heap, node)) >= 2
    /\ Len(Following(heap, node)) >= 2
    /\ ret.clone # node
    /\ ret2.checked = "null"
    /\ ret2.clone = ret.clone

(***************************************************************************)
(* C6.  When no checkbox is found (also when one exists but is not first   *)
(* on the leading spine), the extraction returns checked = null and the    *)
(* input node itself, and allocates nothing.                               *)
(***************************************************************************)
C6_NotFoundReturnsInput ==
    [][(pc = "start" /\ pc' = "extracted" /\ ~HasTarget(heap, node)) =>
          /\ ~ret'.threw
          /\ ret'.checked = "null"
          /\ ret'.clone = node
          /\ heap' = heap]_vars

\* <li>text<input type="checkbox">...</li>: a checkbox behind a text.
C6_Witness ==
    /\ pc = "extracted"
    /\ Len(heap[node].children) >= 2
    /\ heap[heap[node].children[1]].type = "text"
    /\ CheckboxNode(heap, heap[node].children[2])
    /\ ret.checked = "null"
    /\ ret.clone = node

(***************************************************************************)
(* C7.  No call changes a node that exists: every heap cell keeps its      *)
(* value.  A successful extraction allocates one element per spine         *)
(* element, from the checkbox's parent up to the input node, and one Text  *)
(* node when a trimmed text is kept; each new element has the type, tag    *)
(* and properties of the one it copies; above the innermost, it has as     *)
(* many children, the first being the rebuilt inner clone and the others   *)
(* the original references; the innermost holds original references (and   *)
(* the new Text node).  A call that finds nothing or fails allocates       *)
(* nothing.                                                                *)
(***************************************************************************)
NonMutating(h0, h1) ==
    /\ Len(h1) >= Len(h0)
    /\ \A i \in 1..Len(h0) : h1[i] = h0[i]

TextKept(h, x) ==
    LET rest == Following(h, x) IN
    /\ rest # <<>>
    /\ h[rest[1]].type = "text"
    /\ LeadingTrimmed(h[rest[1]].value) # <<>>

PersistentUpdate(h0, h1, x, r) ==
    IF ~Succeeded(r) THEN h1 = h0
    ELSE
    LET spine == Spine(h0, x)
        m     == Len(spine)
        rest  == Following(h0, x)
        cpath == LeadingPath(h1, r.clone)
        kids  == h1[cpath[m]].children
    IN  /\ Len(h1) = Len(h0) + m + (IF TextKept(h0, x) THEN 1 ELSE 0)
        /\ \A j \in 1..m :
             /\ cpath[j] > Len(h0)
             /\ h1[cpath[j]].type = h0[spine[j]].type
             /\ h1[cpath[j]].tagName = h0[spine[j]].tagName
             /\ h1[cpath[j]].properties = h0[spine[j]].properties
        /\ \A j \in 1..(m - 1) :
             /\ Len(h1[cpath[j]].children) = Len(h0[spine[j]].children)
             /\ h1[cpath[j]].children[1] = cpath[j + 1]
             /\ Tail(h1[cpath[j]].children) = Tail(h0[spine[j]].children)
        /\ IF TextKept(h0, x)
           THEN /\ kids[1] > Len(h0)
                /\ h1[kids[1]].type = "text"
                /\ Tail(kids) = Tail(rest)
           ELSE kids \in {rest, Tail(rest)}

C7_PersistentUpdate ==
    [][/\ NonMutating(heap, heap')
       /\ (pc = "start" /\ pc' = "extracted") =>
             PersistentUpdate(heap, heap', node, ret')
       /\ (pc = "extracted" /\ pc' = "reextracted") =>
             PersistentUpdate(heap, heap', ret.clone, ret2')
       /\ (pc = "start" /\ pc' = "classified") => heap' = heap]_vars

\* An extraction through a wrapper, in an item with further children.
C7_Witness ==
    /\ pc = "extracted"
    /\ Succeeded(ret)
    /\ ret.clone # node
    /\ Len(Spine(heap, node)) >= 2
    /\ Len(heap[node].children) >= 2
    /\ TextKept(heap, node)
    /\ heap[ret.clone].children[2] = heap[node].children[2]

(***************************************************************************)
(* C8.  An element with a direct <p> child, at any position and whatever   *)
(* its other children, is classified spread.                               *)
(***************************************************************************)
HasParagraphChild(h, x) ==
    \E i \in 1..Len(h[x].children) :
        h[h[x].children[i]].type = "element" /\ h[h[x].children[i]].tagName = "p"

C8_ParagraphChildSpreads ==
    (pc = "classified" /\ HasParagraphChild(heap, node)) => spread = "true"

\* A paragraph that is not the first child, behind text and phrasing.
C8_Witness ==
    /\ pc = "classified"
    /\ Len(heap[node].children) >= 3
    /\ heap[heap[node].children[1]].type = "text"
    /\ heap[heap[node].children[2]].tagName = "strong"
    /\ heap[heap[node].children[3]].tagName = "p"
    /\ spread = "true"

(***************************************************************************)
(* C9.  spreadout is the reference classification: an element is spread    *)
(* exactly when, among its children that are non-phrasing elements, one    *)
(* is a paragraph, or there are two or more, or one is itself spread.      *)
(***************************************************************************)
FlowChildren(h, x) ==
    {i \in 1..Len(h[x].children) :
        h[h[x].children[i]].type = "element" /\ ~phrasing(h, h[x].children[i])}

RECURSIVE IsSpread(_, _)
IsSpread(h, x) ==
    LET flow == FlowChildren(h, x) IN
    \/ \E i \in flow : h[h[x].children[i]].tagName = "p"
    \/ Cardinality(flow) >= 2
    \/ \E i \in flow : IsSpread(h, h[x].children[i])

C9_SpreadoutIsReference ==
    pc = "classified" => (spread = "true" <=> IsSpread(heap, node))

\* One flow child, not a paragraph, that is itself spread: decided by the
\* recursion alone.
C9_Witness ==
    /\ pc = "classified"
    /\ spread = "true"
    /\ Cardinality(FlowChildren(heap, node)) = 1
    /\ ~HasParagraphChild(heap, node)

\* All children are text or phrasing, a paragraph sits inside a phrasing
\* child, and the item is not spread.
C9_PhrasingNotDescended ==
    /\ pc = "classified"
    /\ spread = "false"
    /\ FlowChildren(heap, node) = {}
    /\ \E i \in 1..Len(heap[node].children) :
         HasParagraphChild(heap, heap[node].children[i])

(***************************************************************************)
(* C10.  Whenever li returns, the spread of its result, computed on the    *)
(* clone, is the spread of the input node.                                 *)
(***************************************************************************)
C10_ExtractionKeepsSpread ==
    [][(pc = "start" /\ pc' = "converted" /\ ~result'.threw) =>
          result'.spread = spreadout(heap, node)]_vars

\* A task item that is spread: the checkbox is removed from a paragraph.
C10_Witness ==
    /\ pc = "converted"
    /\ ~result.threw
    /\ result.type = "listItem"
    /\ result.checked \in {"true", "false"}
    /\ result.spread
    /\ patched # <<>>
    /\ patched[1] # node

====
